---------------------------- MODULE Spec2Model ----------------------------
(***************************************************************************)
(* Variable MLS (Mining in Logarithmic Space): the proof compression       *)
(* (Dissolve, Compress), the fork choice (Compare) and the driver loop of  *)
(* src/src/mls.py.                                                         *)
(*                                                                         *)
(* A block is a record [height, level, diff, block_hash].  Python lists    *)
(* are sequences (index i of the code is index i+1 here), a Python dict    *)
(* is a function on its key set.                                           *)
(***************************************************************************)
EXTENDS Integers, Sequences, FiniteSets, TLC

VARIABLES
    k_args,        \* global k: length of the unstable part
    chi_args,      \* global chi: length of the uncompressed part
    K_args,        \* global K: security parameter
    pc,            \* position of the program
    height,        \* driver: loop variable
    proof,         \* driver: running proof; otherwise first argument
    old_proof,     \* driver: retained proof
    full_chain,    \* driver: every block appended so far
    proof_prime,   \* second argument of Compare
    fork,          \* the chains the two arguments of Compare come from
    out,           \* what the last call returned
    heap,          \* the list objects: heap[i] is the content of list i
    ref,           \* the list object each name of the driver is bound to
    block_hash,    \* Block: the hash of the header, an integer
    target         \* Block: the target of the header, an integer

vars == <<k_args, chi_args, K_args, pc, height, proof, old_proof,
          full_chain, proof_prime, fork, out, heap, ref, block_hash, target>>

-----------------------------------------------------------------------------
(* Bounds of the model. *)

MaxLen == 6        \* blocks of a chain given to Dissolve or Compress
MaxHeaders == 6    \* headers the driver loop runs over
MaxLevel == 2      \* highest level of a block other than genesis
MaxTail == 2       \* k + chi ranges over 0..MaxTail
MaxK == 2          \* K ranges over 1..MaxK
MaxDiff == 2       \* the difficulty of a block ranges over 1..MaxDiff
MaxFork == 4       \* blocks after genesis in the two chains of a fork
MaxBlocks == 5     \* blocks of a chain given to get_proof_level
MaxExponent == 3   \* the targets go up to 2^(53 + MaxExponent)
MaxShift == 4      \* a hash is about target >> l, l in 0..MaxShift
MaxDelta == 2      \* a hash is up to MaxDelta above target >> l

(* Program constants. *)

LEVEL_INFINITY == 256     \* level given to the genesis block

-----------------------------------------------------------------------------
(* Python list primitives. *)

\* (mutant) the first of the two, smaller or not.
Min_first(a, b) == a

Min(a, b) == IF a < b THEN a ELSE b
Max(a, b) == IF a > b THEN a ELSE b

\* A slice bound i of a list of length n: negative counts from the end,
\* the result is clamped to 0..n.
PyBound(i, n) == IF i < 0 THEN Max(i + n, 0) ELSE Min(i, n)

\* lst[:i]
PyUpTo(lst, i) == SubSeq(lst, 1, PyBound(i, Len(lst)))

\* lst[i:]
PyFrom(lst, i) == SubSeq(lst, PyBound(i, Len(lst)) + 1, Len(lst))

\* lst[i] is defined for -n <= i < n
PyHasIndex(lst, i) == (-Len(lst) <= i) /\ (i < Len(lst))

\* lst[i]
PyAt(lst, i) == IF i < 0 THEN lst[i + Len(lst) + 1] ELSE lst[i + 1]

\* lst.index(b) finds the first element equal to b (Block.__eq__ compares
\* every field); it raises ValueError when there is none.
PyHasElem(lst, b) == \E i \in 1..Len(lst) : lst[i] = b

PyIndex(lst, b) ==
    (CHOOSE i \in 1..Len(lst) :
        lst[i] = b /\ \A j \in 1..(i - 1) : lst[j] # b) - 1

-----------------------------------------------------------------------------
(* Helper functions of mls.py. *)

\* (mutant) the blocks of level > level.
filter_chain_by_level_strict(chain, level) ==
    SelectSeq(chain, LAMBDA block : block.level > level)

\* filter_chain_by_level: the blocks of level >= level, in chain order.
filter_chain_by_level(chain, level) ==
    SelectSeq(chain, LAMBDA block : block.level >= level)

\* chain_score: the sum of the difficulties; 0 for the empty chain.
RECURSIVE SumDiff(_)
SumDiff(chain) ==
    IF chain = << >> THEN 0 ELSE Head(chain).diff + SumDiff(Tail(chain))

chain_score(chain) == IF chain = << >> THEN 0 ELSE SumDiff(chain)

\* proof_not_valid: a stub, every proof is valid.
proof_not_valid(p) == FALSE

\* (mutant) only the last 2*K blocks give keys.
BlockLevels_of_last_2K(p) ==
    { p[i].level : i \in Max(1, Len(p) - 2 * K_args + 1)..Len(p) }

\* get_proof_level, the counting loop: a block increments the counter of
\* its own level and of every level below it, so the keys of level_count
\* are 0..(highest level of a block) and level_count[l] is the number of
\* blocks of level >= l.
BlockLevels(p) == { p[i].level : i \in 1..Len(p) }

MaxKey(p) == CHOOSE l \in BlockLevels(p) : \A m \in BlockLevels(p) : m <= l

LevelKeys(p) == IF p = << >> THEN {} ELSE 0..MaxKey(p)

\* (mutant) a block is counted at its own level only.
level_count_own_level(p, l) == Cardinality({ i \in 1..Len(p) : p[i].level = l })

level_count(p, l) == Cardinality({ i \in 1..Len(p) : p[i].level >= l })

\* get_proof_level, the scan of sorted(level_count.keys(), reverse=True) as
\* the code writes it: the first key met with at least 2*K blocks, which is
\* the highest such key; 0 when no key has 2*K blocks.
get_proof_level_scan(p) ==
    LET qualifying == { l \in LevelKeys(p) : level_count(p, l) >= 2 * K_args }
    IN  IF qualifying = {} THEN 0
        ELSE CHOOSE l \in qualifying : \A m \in qualifying : m <= l

\* (mutant) the keys are scanned in ascending order: the lowest key with
\* at least 2*K blocks is returned.
get_proof_level_ascending(p) ==
    LET qualifying == { l \in BlockLevels(p) : level_count(p, l) >= 2 * K_args }
    IN  IF qualifying = {} THEN 0
        ELSE CHOOSE l \in qualifying : \A m \in qualifying : l <= m

\* get_proof_level.  The genesis level makes the keys 0..256, and
\* level_count only changes at a key that is some block's level: a key
\* between two block levels has the count of the block level above it,
\* which the descending scan met before.  So the key the scan returns is
\* a block's level, and only those keys are visited here.
get_proof_level(p) ==
    LET qualifying == { l \in BlockLevels(p) : level_count(p, l) >= 2 * K_args }
    IN  IF qualifying = {} THEN 0
        ELSE CHOOSE l \in qualifying : \A m \in qualifying : m <= l

-----------------------------------------------------------------------------
(* Dissolve. *)

\* (mutant) the anchor is taken two levels above mu.
DissolveLevel_anchor_two_above(proof_compressed, mu) ==
    LET upper == filter_chain_by_level(proof_compressed, mu + 2)
        chain_at_level_mu == filter_chain_by_level(proof_compressed, mu)
    IN  IF ~PyHasIndex(upper, -K_args)
        THEN [err |-> "IndexError", blocks |-> << >>]
        ELSE
          LET b == PyAt(upper, -K_args)
              start == Min(Len(chain_at_level_mu) - 2 * K_args,
                           PyIndex(chain_at_level_mu, b))
          IN  [err |-> "none", blocks |-> PyFrom(chain_at_level_mu, start)]

\* One iteration of the for loop of Dissolve, for level mu: the list the
\* iteration stores at dissolved_chain[mu].  Indexing a list out of its
\* range raises IndexError and list.index of an absent block raises
\* ValueError: err names the exception the iteration raises.
DissolveLevel(proof_compressed, mu) ==
    LET upper == filter_chain_by_level(proof_compressed, mu + 1)
        chain_at_level_mu == filter_chain_by_level(proof_compressed, mu)
    IN  IF ~PyHasIndex(upper, -K_args)
        THEN [err |-> "IndexError", blocks |-> << >>]
        ELSE
          LET b == PyAt(upper, -K_args)
          IN  IF ~PyHasElem(chain_at_level_mu, b)
              THEN [err |-> "ValueError", blocks |-> << >>]
              ELSE
                LET start == Min(Len(chain_at_level_mu) - 2 * K_args,
                                 PyIndex(chain_at_level_mu, b))
                IN  [err |-> "none",
                     blocks |-> PyFrom(chain_at_level_mu, start)]

\* (mutant) the loop stops above level 0.
DissolveLoop_down_to_1(proof_compressed, mu, dc) ==
    LET raising == { m \in 1..mu : DissolveLevel(proof_compressed, m).err # "none" }
        first == IF raising = {} THEN 0
                 ELSE CHOOSE m \in raising : \A n \in raising : n <= m
        stored == (first + 1)..mu
    IN  [err |-> IF raising = {} THEN "none"
                 ELSE DissolveLevel(proof_compressed, first).err,
         dissolved_chain |->
           [m \in (DOMAIN dc) \cup stored |->
              IF m \in DOMAIN dc THEN dc[m]
              ELSE DissolveLevel(proof_compressed, m).blocks]]

\* The for loop of Dissolve, from level mu down to level 0; dc is the
\* dictionary built so far.  An iteration reads proof_compressed only, so
\* the loop is the iterations of the levels mu, mu-1, ..., 0 up to the
\* first one that raises; err names the exception that ended the loop.
\* (With K <= 0 the loop starts at level 255: it is written without
\* recursion.)
DissolveLoop(proof_compressed, mu, dc) ==
    LET raising == { m \in 0..mu : DissolveLevel(proof_compressed, m).err # "none" }
        first == IF raising = {} THEN -1
                 ELSE CHOOSE m \in raising : \A n \in raising : n <= m
        stored == (first + 1)..mu
    IN  [err |-> IF raising = {} THEN "none"
                 ELSE DissolveLevel(proof_compressed, first).err,
         dissolved_chain |->
           [m \in (DOMAIN dc) \cup stored |->
              IF m \in DOMAIN dc THEN dc[m]
              ELSE DissolveLevel(proof_compressed, m).blocks]]

\* (mutant) the compressible part starts at the second block.
CompressiblePart_from_second(chain) ==
    LET part == PyUpTo(chain, -k_args - chi_args)
    IN  IF part = << >> THEN part ELSE Tail(part)

\* chain[:-k_args-chi_args]
CompressiblePart(chain) == PyUpTo(chain, -k_args - chi_args)

\* (mutant) the remainder starts one block late.
RemainderPart_one_late(chain) ==
    LET rest == PyFrom(chain, -k_args - chi_args)
    IN  IF rest = << >> THEN rest ELSE Tail(rest)

\* chain[-k_args-chi_args:]
RemainderPart(chain) == PyFrom(chain, -k_args - chi_args)

\* (mutant) the top level keeps its last 2K blocks only.
Dissolve_top_last_2K(chain) ==
    LET proof_compressed == CompressiblePart(chain)
        proof_remainder == RemainderPart(chain)
    IN  IF Len(proof_compressed) >= 2 * K_args
        THEN
          LET level == get_proof_level(proof_compressed)
              blocks == filter_chain_by_level(proof_compressed, level)
              top == level :> PyFrom(blocks, Len(blocks) - 2 * K_args)
              loop == DissolveLoop(proof_compressed, level - 1, top)
          IN  [err |-> loop.err,
               dissolved_chain |-> loop.dissolved_chain,
               level |-> level,
               proof_remainder |-> proof_remainder]
        ELSE
          [err |-> "none",
           dissolved_chain |-> (0 :> proof_compressed),
           level |-> 0,
           proof_remainder |-> proof_remainder]

Dissolve(chain) ==
    LET proof_compressed == CompressiblePart(chain)
        proof_remainder == RemainderPart(chain)
    IN  IF Len(proof_compressed) >= 2 * K_args
        THEN
          LET level == get_proof_level(proof_compressed)
              top == level :> filter_chain_by_level(proof_compressed, level)
              loop == DissolveLoop(proof_compressed, level - 1, top)
          IN  [err |-> loop.err,
               dissolved_chain |-> loop.dissolved_chain,
               level |-> level,
               proof_remainder |-> proof_remainder]
        ELSE
          [err |-> "none",
           dissolved_chain |-> (0 :> proof_compressed),
           level |-> 0,
           proof_remainder |-> proof_remainder]

-----------------------------------------------------------------------------
(* dissolved_chain_to_chain and Compress. *)

\* The keys of a dictionary in descending order: the order in which
\* Dissolve inserts them, which is the order dict.values() iterates.
RECURSIVE DescendingKeys(_)
DescendingKeys(S) ==
    IF S = {} THEN << >>
    ELSE LET m == CHOOSE x \in S : \A y \in S : y <= x
         IN  <<m>> \o DescendingKeys(S \ {m})

\* The nested loops: the lists of the levels one after the other.
RECURSIVE ConcatLevels(_, _)
ConcatLevels(dc, order) ==
    IF order = << >> THEN << >>
    ELSE dc[Head(order)] \o ConcatLevels(dc, Tail(order))

\* (mutant) every block is appended, seen before or not.
UniqueByHeight_keep_all(blocks, unique_block_heights) == blocks

\* A block is appended unless its height was seen before.
RECURSIVE UniqueByHeight(_, _)
UniqueByHeight(blocks, unique_block_heights) ==
    IF blocks = << >> THEN << >>
    ELSE IF Head(blocks).height \in unique_block_heights
         THEN UniqueByHeight(Tail(blocks), unique_block_heights)
         ELSE <<Head(blocks)>> \o
              UniqueByHeight(Tail(blocks),
                             unique_block_heights \cup {Head(blocks).height})

\* sorted(chain, key=height): a stable sort, by insertion.
RECURSIVE InsertByHeight(_, _)
InsertByHeight(sorted, block) ==
    IF sorted = << >> THEN <<block>>
    ELSE IF sorted[Len(sorted)].height <= block.height
         THEN Append(sorted, block)
         ELSE Append(InsertByHeight(SubSeq(sorted, 1, Len(sorted) - 1), block),
                     sorted[Len(sorted)])

RECURSIVE SortByHeight(_)
SortByHeight(chain) ==
    IF chain = << >> THEN << >>
    ELSE InsertByHeight(SortByHeight(SubSeq(chain, 1, Len(chain) - 1)),
                        chain[Len(chain)])

\* (mutant) the blocks are left in the order they were appended.
FlattenInOrder_unsorted(dc, order) ==
    UniqueByHeight(ConcatLevels(dc, order), {})

\* The loops over the levels in the given order, then sorted().
FlattenInOrder(dc, order) ==
    SortByHeight(UniqueByHeight(ConcatLevels(dc, order), {}))

\* (mutant) the list of level 0 is left out when there are higher levels.
dissolved_chain_to_chain_above_0(dc) ==
    IF DOMAIN dc = {0} THEN FlattenInOrder(dc, <<0>>)
    ELSE FlattenInOrder(dc, DescendingKeys((DOMAIN dc) \ {0}))

dissolved_chain_to_chain(dc) ==
    FlattenInOrder(dc, DescendingKeys(DOMAIN dc))

\* (mutant) the remainder is not appended.
Compress_without_remainder(chain) ==
    LET d == Dissolve(chain)
    IN  IF d.err # "none" THEN [err |-> d.err, chain |-> << >>]
        ELSE [err |-> "none",
              chain |-> dissolved_chain_to_chain(d.dissolved_chain)]

Compress(chain) ==
    LET d == Dissolve(chain)
    IN  IF d.err # "none" THEN [err |-> d.err, chain |-> << >>]
        ELSE [err |-> "none",
              chain |-> dissolved_chain_to_chain(d.dissolved_chain)
                        \o d.proof_remainder]

-----------------------------------------------------------------------------
(* intersection and Compare. *)

HeightsOf(blocks) == { blocks[i].height : i \in 1..Len(blocks) }

\* (mutant) the blocks of the first list that are blocks of the second.
intersection_blocks_same_block(dissolved_chain_blocks, dissolved_chain_prime_blocks) ==
    SelectSeq(dissolved_chain_blocks,
              LAMBDA block : \E i \in 1..Len(dissolved_chain_prime_blocks) :
                               dissolved_chain_prime_blocks[i] = block)

\* The blocks of the first list whose height occurs in the second.
intersection_blocks(dissolved_chain_blocks, dissolved_chain_prime_blocks) ==
    SelectSeq(dissolved_chain_blocks,
              LAMBDA block : block.height \in HeightsOf(dissolved_chain_prime_blocks))

intersection(dc, dc_prime) ==
    LET common_levels == (DOMAIN dc) \cap (DOMAIN dc_prime)
        kept == { l \in common_levels :
                    intersection_blocks(dc[l], dc_prime[l]) # << >> }
    IN  [l \in kept |-> intersection_blocks(dc[l], dc_prime[l])]

MinKey(S) == CHOOSE x \in S : \A y \in S : x <= y

\* chain_score(lst[lst.index(b):])
ScoreFrom(lst, b) == chain_score(PyFrom(lst, PyIndex(lst, b)))

\* (mutant) equal levels favour the second proof.
CompareByLevel_or_equal(level, level_prime) ==
    IF level_prime >= level THEN "proof_prime" ELSE "proof"

\* Compare, no level in common: the proof of the higher level, the first
\* one when the levels are equal.
CompareByLevel(level, level_prime) ==
    IF level_prime > level THEN "proof_prime" ELSE "proof"

\* (mutant) the remainders are not scored.
CompareByScore_without_remainder(d, d_prime, M) ==
    LET mu == MinKey(DOMAIN M)
        b == M[mu][Len(M[mu])]
    IN  IF ~PyHasElem(d_prime.dissolved_chain[mu], b)
        THEN [err |-> "ValueError", winner |-> ""]
        ELSE IF ScoreFrom(d_prime.dissolved_chain[mu], b)
                > ScoreFrom(d.dissolved_chain[mu], b)
             THEN [err |-> "none", winner |-> "proof_prime"]
             ELSE [err |-> "none", winner |-> "proof"]

\* Compare, some level in common: mu is the lowest level of M, b the last
\* block of M[mu]; the scores are taken from b on.  b is a block of the
\* first proof, and list.index(b) on the list of the second proof raises
\* ValueError when that list holds no block equal to b.
CompareByScore(d, d_prime, M) ==
    LET mu == MinKey(DOMAIN M)
        b == M[mu][Len(M[mu])]
    IN  IF ~PyHasElem(d_prime.dissolved_chain[mu], b)
        THEN [err |-> "ValueError", winner |-> ""]
        ELSE IF ScoreFrom(d_prime.dissolved_chain[mu], b)
                  + chain_score(d_prime.proof_remainder)
                > ScoreFrom(d.dissolved_chain[mu], b)
                  + chain_score(d.proof_remainder)
             THEN [err |-> "none", winner |-> "proof_prime"]
             ELSE [err |-> "none", winner |-> "proof"]

\* (mutant) the second proof is returned unless the first one is strictly
\* better.
Compare_second_on_ties(p, p_prime) ==
    LET d == Dissolve(p)
        d_prime == Dissolve(p_prime)
    IN  IF d.err # "none" THEN [err |-> d.err, winner |-> ""]
        ELSE IF d_prime.err # "none" THEN [err |-> d_prime.err, winner |-> ""]
        ELSE
          LET M == intersection(d.dissolved_chain, d_prime.dissolved_chain)
              mu == MinKey(DOMAIN M)
              b == M[mu][Len(M[mu])]
          IN  IF DOMAIN M = {}
              THEN [err |-> "none",
                    winner |-> IF d.level > d_prime.level THEN "proof"
                               ELSE "proof_prime"]
              ELSE IF ~PyHasElem(d_prime.dissolved_chain[mu], b)
              THEN [err |-> "ValueError", winner |-> ""]
              ELSE IF ScoreFrom(d.dissolved_chain[mu], b)
                        + chain_score(d.proof_remainder)
                      > ScoreFrom(d_prime.dissolved_chain[mu], b)
                        + chain_score(d_prime.proof_remainder)
                   THEN [err |-> "none", winner |-> "proof"]
                   ELSE [err |-> "none", winner |-> "proof_prime"]

\* Compare returns one of its arguments: winner names which ("proof" or
\* "proof_prime"), or "" when an exception ended the call.
Compare(p, p_prime) ==
    IF proof_not_valid(p) THEN [err |-> "none", winner |-> "proof_prime"]
    ELSE IF proof_not_valid(p_prime) THEN [err |-> "none", winner |-> "proof"]
    ELSE
      LET d == Dissolve(p)
          d_prime == Dissolve(p_prime)
      IN  IF d.err # "none" THEN [err |-> d.err, winner |-> ""]
          ELSE IF d_prime.err # "none" THEN [err |-> d_prime.err, winner |-> ""]
          ELSE
            LET M == intersection(d.dissolved_chain, d_prime.dissolved_chain)
            IN  IF DOMAIN M = {}
                THEN [err |-> "none",
                      winner |-> CompareByLevel(d.level, d_prime.level)]
                ELSE CompareByScore(d, d_prime, M)

-----------------------------------------------------------------------------
(* Blocks and the parameters a run starts with. *)

Levels == 0..MaxLevel
Diffs == 1..MaxDiff

Block(h, l, d, id) == [height |-> h, level |-> l, diff |-> d, block_hash |-> id]

\* (mutant) the level of the block at height 0 is left as drawn.
get_block_by_height_as_drawn(h, l, d, id) == Block(h, l, d, id)

\* get_block_by_height: the block at height 0 gets level 256, whatever
\* level the generator drew (the scripted list, the random sample, or, for
\* Bitcoin headers, the level of the header, overridden in the loop).
get_block_by_height(h, l, d, id) ==
    Block(h, IF h = 0 THEN LEVEL_INFINITY ELSE l, d, id)

None == [err |-> "none", winner |-> ""]

\* No name is bound to a list object.
NoRef == [proof |-> 0, old_proof |-> 0, proof_remainder |-> 0]
NoFork == [C |-> << >>, X |-> << >>, Y |-> << >>]

\* The command line: -k, -chi and -K, K >= 1.
InitArgs ==
    /\ k_args \in 0..MaxTail
    /\ chi_args \in 0..(MaxTail - k_args)
    /\ K_args \in 1..MaxK

-----------------------------------------------------------------------------
(* The driver: the compression loop of __main__. *)

headersNumber == MaxHeaders

Init ==
    /\ InitArgs
    /\ pc = "loop"
    /\ height = 0
    /\ proof = << >>
    /\ old_proof = << >>
    /\ full_chain = << >>
    /\ proof_prime = << >>
    /\ fork = NoFork
    /\ out = None
    /\ heap = << >>
    /\ ref = NoRef
    /\ block_hash = {}
    /\ target = {}

\* (mutant) the loop goes on when the previous proof was selected.
IterationResult_goes_on(compressed, collected, compared) ==
    IF compressed.err # "none"
    THEN [pc |-> "crashed", proof |-> proof, old_proof |-> old_proof,
          out |-> [err |-> compressed.err, winner |-> ""]]
    ELSE IF collected.err # "none"
    THEN [pc |-> "crashed", proof |-> compressed.chain,
          old_proof |-> old_proof,
          out |-> [err |-> collected.err, winner |-> ""]]
    ELSE
      LET chosen == IF compared.winner = "proof" THEN old_proof
                    ELSE compressed.chain
      IN  IF compared.err # "none"
          THEN [pc |-> "crashed", proof |-> compressed.chain,
                old_proof |-> old_proof, out |-> compared]
          ELSE [pc |-> "loop", proof |-> chosen, old_proof |-> chosen,
                out |-> compared]

\* The end of one iteration, from what Compress, Dissolve and Compare gave.
\* An exception other than KeyboardInterrupt is not caught and ends the
\* program ("crashed"); terminate_app(2, "Previous proof selected") ends
\* it too ("fatal").
IterationResult(compressed, collected, compared) ==
    IF compressed.err # "none"
    THEN [pc |-> "crashed", proof |-> proof, old_proof |-> old_proof,
          out |-> [err |-> compressed.err, winner |-> ""]]
    ELSE IF collected.err # "none"
    THEN [pc |-> "crashed", proof |-> compressed.chain,
          old_proof |-> old_proof,
          out |-> [err |-> collected.err, winner |-> ""]]
    ELSE
      LET chosen == IF compared.winner = "proof" THEN old_proof
                    ELSE compressed.chain
      IN  IF compared.err # "none"
          THEN [pc |-> "crashed", proof |-> compressed.chain,
                old_proof |-> old_proof, out |-> compared]
          ELSE IF old_proof = chosen
          THEN [pc |-> "fatal", proof |-> chosen, old_proof |-> old_proof,
                out |-> compared]
          ELSE [pc |-> "loop", proof |-> chosen, old_proof |-> chosen,
                out |-> compared]

\* One iteration of the loop: the generator delivers the block b, the
\* proof is extended and compressed, dissolved for the statistics, and
\* compared with old_proof once height > k + chi.
Iterate ==
    /\ pc = "loop"
    /\ height < headersNumber
    /\ \E l \in Levels :
       \E b \in {get_block_by_height(height, l, 1, 0)} :
       \E compressed \in {Compress(Append(proof, b))} :
       \E collected \in {Dissolve(compressed.chain)} :
       \E compared \in {IF /\ compressed.err = "none"
                           /\ collected.err = "none"
                           /\ height > k_args + chi_args
                        THEN Compare(old_proof, compressed.chain)
                        ELSE None} :
       \E r \in {IterationResult(compressed, collected, compared)} :
         /\ pc' = r.pc
         /\ proof' = r.proof
         /\ old_proof' = r.old_proof
         /\ out' = r.out
         /\ full_chain' = Append(full_chain, b)
         /\ height' = IF r.pc = "loop" THEN height + 1 ELSE height
    /\ UNCHANGED <<heap, ref, block_hash, target, k_args, chi_args, K_args, proof_prime, fork>>

\* The loop is over: "Execution complete!" and terminate_app(0).
Finish ==
    /\ pc = "loop"
    /\ height = headersNumber
    /\ pc' = "done"
    /\ UNCHANGED <<heap, ref, block_hash, target, k_args, chi_args, K_args, height, proof, old_proof,
                   full_chain, proof_prime, fork, out>>

Next == Iterate \/ Finish

Spec == Init /\ [][Next]_vars

-----------------------------------------------------------------------------
(* The driver with its list objects.                                       *)
(*                                                                         *)
(* A Python name is bound to a list object, and list.append changes the    *)
(* object for every name bound to it.  heap[i] is the content of list      *)
(* object i, ref gives the object of the names proof, old_proof and of     *)
(* the remainder Dissolve returned.  A slice, a concatenation, sorted()    *)
(* and copy.deepcopy make a new list object; a function that returns one   *)
(* of its parameters returns that object.                                  *)

\* The object a list expression evaluates to: one that did not exist.
NewList(h) == Len(h) + 1

\* The heap h once object i holds the list value.
Store(h, i, value) ==
    IF i \in 1..Len(h) THEN [h EXCEPT ![i] = value] ELSE Append(h, value)

\* (mutant) Compress rewrites its parameter and returns it.
CompressObject_in_place(h, chain) == chain

\* Compress returns proof_compressed + proof_remainder: a new list.

CompressObject(h, chain) == NewList(h)

\* Dissolve returns chain[-k-chi:], a slice: a new list.
RemainderObject(h, chain) == NewList(h)

\* Compare returns one of its two parameters.
CompareObject(compared, p, p_prime) ==
    IF compared.winner = "proof" THEN p ELSE p_prime

\* copy.deepcopy(x): a new list with copies of the blocks.
deepcopy(h, x) == NewList(h)

\* proof = [] and old_proof = [] are two lists.
InitObjects ==
    /\ InitArgs
    /\ pc = "append"
    /\ height = 0
    /\ proof = << >>
    /\ old_proof = << >>
    /\ full_chain = << >>
    /\ proof_prime = << >>
    /\ fork = NoFork
    /\ out = None
    /\ heap = << << >>, << >> >>
    /\ ref = [proof |-> 1, old_proof |-> 2, proof_remainder |-> 0]
    /\ block_hash = {}
    /\ target = {}

\* proof.append(copy.deepcopy(b)); full_chain.append(copy.deepcopy(b))
AppendBlock ==
    /\ pc = "append"
    /\ height < headersNumber
    /\ \E l \in Levels :
       \E b \in {get_block_by_height(height, l, 1, 0)} :
         /\ heap' = [heap EXCEPT ![ref.proof] = Append(@, b)]
         /\ full_chain' = Append(full_chain, b)
    /\ pc' = "compress"
    /\ UNCHANGED <<ref, block_hash, target, k_args, chi_args, K_args, height, proof, old_proof,
                   proof_prime, fork, out>>

\* proof = Compress(proof)
CompressProof ==
    /\ pc = "compress"
    /\ \E compressed \in {Compress(heap[ref.proof])} :
       \E object \in {CompressObject(heap, ref.proof)} :
         IF compressed.err # "none"
         THEN /\ pc' = "crashed"
              /\ out' = [err |-> compressed.err, winner |-> ""]
              /\ UNCHANGED <<heap, ref>>
         ELSE /\ pc' = "dissolve"
              /\ heap' = Store(heap, object, compressed.chain)
              /\ ref' = [ref EXCEPT !.proof = object]
              /\ UNCHANGED out
    /\ UNCHANGED <<block_hash, target, k_args, chi_args, K_args, height, proof, old_proof,
                   full_chain, proof_prime, fork>>

\* dissolved_chain, level, _ = Dissolve(proof)
DissolveProof ==
    /\ pc = "dissolve"
    /\ \E collected \in {Dissolve(heap[ref.proof])} :
       \E object \in {RemainderObject(heap, ref.proof)} :
         IF collected.err # "none"
         THEN /\ pc' = "crashed"
              /\ out' = [err |-> collected.err, winner |-> ""]
              /\ UNCHANGED <<heap, ref>>
         ELSE /\ pc' = "compare"
              /\ heap' = Store(heap, object, collected.proof_remainder)
              /\ ref' = [ref EXCEPT !.proof_remainder = object]
              /\ UNCHANGED out
    /\ UNCHANGED <<block_hash, target, k_args, chi_args, K_args, height, proof, old_proof,
                   full_chain, proof_prime, fork>>

\* if height > k_args + chi_args:
\*     proof = copy.deepcopy(Compare(old_proof, proof))
CompareProofs ==
    /\ pc = "compare"
    /\ IF height > k_args + chi_args
       THEN \E compared \in {Compare(heap[ref.old_proof], heap[ref.proof])} :
            \E winner \in {CompareObject(compared, ref.old_proof, ref.proof)} :
            \E object \in {deepcopy(heap, winner)} :
              IF compared.err # "none"
              THEN /\ pc' = "crashed"
                   /\ out' = compared
                   /\ UNCHANGED <<heap, ref>>
              ELSE /\ pc' = "retain"
                   /\ out' = compared
                   /\ heap' = Store(heap, object, heap[winner])
                   /\ ref' = [ref EXCEPT !.proof = object]
       ELSE /\ pc' = "retain"
            /\ UNCHANGED <<heap, ref, out>>
    /\ UNCHANGED <<block_hash, target, k_args, chi_args, K_args, height, proof, old_proof,
                   full_chain, proof_prime, fork>>

\* if old_proof == proof: terminate_app(2, "Previous proof selected ...")
\* old_proof = copy.deepcopy(proof)
RetainProof ==
    /\ pc = "retain"
    /\ IF heap[ref.old_proof] = heap[ref.proof]
       THEN /\ pc' = "fatal"
            /\ UNCHANGED <<heap, ref, height>>
       ELSE \E object \in {deepcopy(heap, ref.proof)} :
              /\ pc' = "append"
              /\ heap' = Store(heap, object, heap[ref.proof])
              /\ ref' = [ref EXCEPT !.old_proof = object]
              /\ height' = height + 1
    /\ UNCHANGED <<block_hash, target, k_args, chi_args, K_args, proof, old_proof, full_chain,
                   proof_prime, fork, out>>

\* The loop is over.
FinishObjects ==
    /\ pc = "append"
    /\ height = headersNumber
    /\ pc' = "done"
    /\ UNCHANGED <<heap, ref, block_hash, target, k_args, chi_args, K_args, height, proof,
                   old_proof, full_chain, proof_prime, fork, out>>

NextObjects ==
    \/ AppendBlock
    \/ CompressProof
    \/ DissolveProof
    \/ CompareProofs
    \/ RetainProof
    \/ FinishObjects

SpecObjects == InitObjects /\ [][NextObjects]_vars

-----------------------------------------------------------------------------
(* The loop without its Compare step: the proof is extended by the next    *)
(* block and compressed, block after block.                                *)

\* (mutant) the block is appended to the compressed proof.
ExtendProof_after_compression(p, b) ==
    LET compressed == Compress(p)
    IN  [err |-> compressed.err, chain |-> Append(compressed.chain, b)]

\* proof.append(copy.deepcopy(b)); proof = Compress(proof)
ExtendProof(p, b) == Compress(Append(p, b))

ExtendAndCompress ==
    /\ pc = "loop"
    /\ height < headersNumber
    /\ \E l \in Levels :
       \E b \in {get_block_by_height(height, l, 1, 0)} :
       \E extended \in {ExtendProof(proof, b)} :
         /\ full_chain' = Append(full_chain, b)
         /\ IF extended.err # "none"
            THEN /\ pc' = "crashed"
                 /\ out' = [err |-> extended.err, winner |-> ""]
                 /\ UNCHANGED <<proof, height>>
            ELSE /\ pc' = "loop"
                 /\ proof' = extended.chain
                 /\ height' = height + 1
                 /\ UNCHANGED out
    /\ UNCHANGED <<heap, ref, block_hash, target, k_args, chi_args, K_args,
                   old_proof, proof_prime, fork>>

NextIncremental == ExtendAndCompress \/ Finish

SpecIncremental == Init /\ [][NextIncremental]_vars

-----------------------------------------------------------------------------
(* The level of a block: level(block_hash, target) of block.py.            *)
(*                                                                         *)
(* A Python int is the set of the positions of its one bits: 5 is {0, 2}.  *)
(* block_hash / target is Python's true division of two ints: the double   *)
(* nearest to the quotient, ties to the even significand.  A double is     *)
(* [zero, exponent, fraction]: 2^exponent * (1 + f / 2^(DoublePrecision-1))*)
(* where f is the number whose bits are fraction.                          *)

\* The significand of a double has 53 bits.
DoublePrecision == 53

\* The largest mantissa of a target: three bytes, as in a header's nBits.
MantissaBits == 24

Top(n) == CHOOSE i \in n : \A j \in n : j <= i

Bottom(n) == CHOOSE i \in n : \A j \in n : j >= i

ShiftLeft(n, l) == { i + l : i \in n }

\* n >> l
ShiftRight(n, l) == { i - l : i \in { j \in n : j >= l } }

\* a <= b
LessOrEqual(a, b) ==
    \/ a = b
    \/ Top((a \ b) \cup (b \ a)) \in b

Bit(n, i) == IF i \in n THEN 1 ELSE 0

\* The six bits of n from position i on, as a number below 64.
Chunk(n, i) ==
    Bit(n, i) + 2 * Bit(n, i + 1) + 4 * Bit(n, i + 2) + 8 * Bit(n, i + 3)
      + 16 * Bit(n, i + 4) + 32 * Bit(n, i + 5)

\* The int with the bits n, for an n below 2^MantissaBits.
Value(n) ==
    Chunk(n, 0) + 64 * Chunk(n, 6) + 4096 * Chunk(n, 12)
      + 262144 * Chunk(n, 18)

\* The bits of the machine word m.
BitsOf(m) == { i \in 0..(MantissaBits - 1) : (m \div 2 ^ i) % 2 = 1 }

\* n + 1
Successor(n) ==
    LET j == CHOOSE i \in 0..(Top(n \cup {0}) + 1) :
                 i \notin n /\ \A l \in 0..(i - 1) : l \in n
    IN  { i \in n : i > j } \cup {j}

\* n - 1, n > 0
Predecessor(n) == (n \ {Bottom(n)}) \cup 0..(Bottom(n) - 1)

\* Long division of the int with bits n by m, six bits at a time from
\* bit i down: q are the quotient bits found so far and r is the running
\* remainder.
RECURSIVE LongDivision(_, _, _, _, _)
LongDivision(n, m, i, r, q) ==
    IF i < 0 THEN [q |-> q, r |-> r]
    ELSE LET r2 == 64 * r + Chunk(n, i)
         IN  LongDivision(n, m, i - 6, r2 % m,
                          q \cup ShiftLeft(BitsOf(r2 \div m), i))

\* h / t: the quotient of the leading bits of h by the mantissa m of t is
\* computed with two bits more than a double holds, and rounded to
\* nearest, ties to even; the bits of h left out and the remainder tell
\* whether the quotient is exact.
TrueDivision(h, t) ==
    IF h = {} THEN [zero |-> TRUE, exponent |-> 0, fraction |-> {}]
    ELSE
      LET m == Value(ShiftRight(t, Bottom(t)))
          s == DoublePrecision + 2 + MantissaBits - Top(h)
          n == IF s >= 0 THEN ShiftLeft(h, s) ELSE ShiftRight(h, -s)
          d == LongDivision(n, m, 6 * (Top(n) \div 6), 0, {})
          round_bit == Top(d.q) - DoublePrecision
          kept == ShiftRight(d.q, round_bit + 1)
          sticky == \/ d.r # 0
                    \/ \E i \in d.q : i < round_bit
                    \/ \E i \in h : i < -s
          up == round_bit \in d.q /\ (sticky \/ 0 \in kept)
          significand == IF up THEN Successor(kept) ELSE kept
      IN  [zero |-> FALSE,
           exponent |-> Top(significand) + round_bit + 1 - s - Bottom(t),
           fraction |-> ShiftRight(significand \ {Top(significand)},
                                   Top(significand) - (DoublePrecision - 1))]

\* The least c with l <= 2^c, l >= 1.
CeilLog2(l) == CHOOSE c \in 0..31 : l <= 2 ^ c /\ (c = 0 \/ l > 2 ^ (c - 1))

\* The largest c with 2^c <= l, l >= 1.
FloorLog2(l) == CHOOSE c \in 0..31 : 2 ^ c <= l /\ l < 2 ^ (c + 1)

\* -math.log2(ratio) is the double nearest to l - x, where l = -exponent
\* and 0 < x < 1 is log2 of 1 + f / 2^52: about 1.4427 * f / 2^52 for a
\* small f.  It is l itself when x is less than half the distance from l
\* to the next double on the side of l - x.
RoundsToInteger(l, fraction) ==
    /\ fraction # {}
    /\ fraction \subseteq 0..5
    /\ \/ l >= 1 /\ 4 * 14427 * Value(fraction) < 10000 * 2 ^ CeilLog2(l)
       \/ l <= -1 /\ 2 * 14427 * Value(fraction) < 10000 * 2 ^ FloorLog2(-l)

\* ratio = block_hash / target; return math.floor(-math.log2(ratio))
BlockLevel(h, t) ==
    LET ratio == TrueDivision(h, t)
    IN  IF ratio.zero THEN [err |-> "ValueError", level |-> 0]
        ELSE IF ratio.fraction = {} \/ RoundsToInteger(-ratio.exponent, ratio.fraction)
        THEN [err |-> "none", level |-> -ratio.exponent]
        ELSE [err |-> "none", level |-> -ratio.exponent - 1]

\* genesisTarget = 0xFFFF * 2^208
genesisTarget == ShiftLeft(BitsOf(65535), 208)

\* The targets of the headers: genesisTarget, and the powers of two and
\* the three-fold powers of two from 2^52 on.
Targets ==
    {genesisTarget}
      \cup { ShiftLeft(BitsOf(m), e) :
                m \in {1, 3},
                e \in (DoublePrecision - 1)..(DoublePrecision + MaxExponent) }

\* The hashes of the headers of target t: t >> l, the MaxDelta numbers
\* above it and the number below it, up to t.
Hashes(t) ==
    LET around(n) == {n, Predecessor(n)}
                       \cup { n \cup BitsOf(d) : d \in 1..MaxDelta }
    IN  { h \in UNION { around(ShiftRight(t, l)) : l \in 0..MaxShift } :
              LessOrEqual(h, t) }

\* The levels a script can ask for.
ScriptedLevels == 0..LEVEL_INFINITY

InitBlock ==
    /\ target \in Targets
    /\ block_hash \in Hashes(target)
    /\ pc = "header"
    /\ k_args = 0
    /\ chi_args = 0
    /\ K_args = 1
    /\ height = 1
    /\ proof = << >>
    /\ old_proof = << >>
    /\ full_chain = << >>
    /\ proof_prime = << >>
    /\ fork = NoFork
    /\ out = None
    /\ heap = << >>
    /\ ref = NoRef

\* Block(height, target, block_hash, timestamp) for a header of the node:
\* self.level = level(block_hash, target)
NewBlock ==
    /\ pc = "header"
    /\ pc' = "block"
    /\ out' = BlockLevel(block_hash, target)
    /\ UNCHANGED <<block_hash, target, heap, ref, k_args, chi_args, K_args,
                   height, proof, old_proof, full_chain, proof_prime, fork>>

\* ScriptedLevelChainGenerator.get_block_by_height at a height above 0:
\* target = genesisTarget; block_hash = target >> level; Block(...)
SyntheticBlock ==
    /\ pc = "header"
    /\ \E l \in ScriptedLevels :
         /\ target' = genesisTarget
         /\ block_hash' = ShiftRight(genesisTarget, l)
         /\ \E b \in {BlockLevel(ShiftRight(genesisTarget, l), genesisTarget)} :
              out' = [err |-> b.err, level |-> b.level, scripted |-> l]
    /\ pc' = "synthetic"
    /\ UNCHANGED <<heap, ref, k_args, chi_args, K_args, height, proof,
                   old_proof, full_chain, proof_prime, fork>>

NextBlock == NewBlock \/ SyntheticBlock

SpecBlock == InitBlock /\ [][NextBlock]_vars

-----------------------------------------------------------------------------
(* Dissolve and Compress applied to one chain.                             *)
(*                                                                         *)
(* The chain is what a generator delivers: heights 0..n-1, genesis first,  *)
(* any levels.  Dissolve and Compress read heights only to order blocks    *)
(* and to tell them apart, so a chain with gaps in its heights behaves as  *)
(* the chain with the same levels and contiguous heights.                  *)

\* The chain whose blocks after genesis have the levels of the sequence
\* levels, difficulty d and identity id, from height h0 on.
RECURSIVE BlocksFrom(_, _, _, _)
BlocksFrom(h0, levels, d, id) ==
    IF levels = << >> THEN << >>
    ELSE <<get_block_by_height(h0, Head(levels), d, id)>>
         \o BlocksFrom(h0 + 1, Tail(levels), d, id)

LevelSeqs(n) == [1..n -> Levels]

InitChain ==
    /\ InitArgs
    /\ pc = "start"
    /\ height = 0
    /\ \E n \in 0..MaxLen :
         \E levels \in LevelSeqs(n) : proof = BlocksFrom(0, levels, 1, 0)
    /\ old_proof = << >>
    /\ full_chain = << >>
    /\ proof_prime = << >>
    /\ fork = NoFork
    /\ out = None
    /\ heap = << >>
    /\ ref = NoRef
    /\ block_hash = {}
    /\ target = {}

CallDissolve ==
    /\ pc = "start"
    /\ pc' = "dissolved"
    /\ out' = Dissolve(proof)
    /\ UNCHANGED <<heap, ref, block_hash, target, k_args, chi_args, K_args, height, proof, old_proof,
                   full_chain, proof_prime, fork>>

CallCompress ==
    /\ pc = "start"
    /\ pc' = "compressed"
    /\ out' = Compress(proof)
    /\ UNCHANGED <<heap, ref, block_hash, target, k_args, chi_args, K_args, height, proof, old_proof,
                   full_chain, proof_prime, fork>>

\* Compress applied to the proof Compress returned; full_chain keeps the
\* chain the first call was given.
CallCompressAgain ==
    /\ pc = "compressed"
    /\ out.err = "none"
    /\ pc' = "recompressed"
    /\ full_chain' = proof
    /\ proof' = out.chain
    /\ out' = Compress(out.chain)
    /\ UNCHANGED <<heap, ref, block_hash, target, k_args, chi_args, K_args, height, old_proof,
                   proof_prime, fork>>

NextChain == CallDissolve \/ CallCompress \/ CallCompressAgain

SpecChain == InitChain /\ [][NextChain]_vars

-----------------------------------------------------------------------------
(* get_proof_level applied to one chain.  k and chi play no part in it.    *)

InitLevel ==
    /\ k_args = 0
    /\ chi_args = 0
    /\ K_args \in 1..MaxK
    /\ pc = "start"
    /\ height = 0
    /\ \E n \in 0..MaxBlocks :
         \E levels \in LevelSeqs(n) : proof = BlocksFrom(0, levels, 1, 0)
    /\ old_proof = << >>
    /\ full_chain = << >>
    /\ proof_prime = << >>
    /\ fork = NoFork
    /\ out = None
    /\ heap = << >>
    /\ ref = NoRef
    /\ block_hash = {}
    /\ target = {}

CallGetProofLevel ==
    /\ pc = "start"
    /\ pc' = "levelled"
    /\ out' = [err |-> "none", level |-> get_proof_level(proof)]
    /\ UNCHANGED <<heap, ref, block_hash, target, k_args, chi_args, K_args, height, proof, old_proof,
                   full_chain, proof_prime, fork>>

SpecLevel == InitLevel /\ [][CallGetProofLevel]_vars

-----------------------------------------------------------------------------
(* dissolved_chain_to_chain applied to what Dissolve returns.  The order   *)
(* in which dict.values() delivers the levels is the order in which the    *)
(* keys were inserted; here it is any order of the keys.                   *)

\* The orders in which the keys S can be iterated.
Orders(S) ==
    { order \in [1..Cardinality(S) -> S] :
        \A i, j \in 1..Cardinality(S) : i # j => order[i] # order[j] }

InitFlatten ==
    /\ k_args \in 0..MaxTail
    /\ chi_args = 0
    /\ K_args \in 1..MaxK
    /\ pc = "start"
    /\ height = 0
    /\ \E n \in 0..MaxBlocks :
         \E levels \in LevelSeqs(n) : proof = BlocksFrom(0, levels, 1, 0)
    /\ old_proof = << >>
    /\ full_chain = << >>
    /\ proof_prime = << >>
    /\ fork = NoFork
    /\ out = None
    /\ heap = << >>
    /\ ref = NoRef
    /\ block_hash = {}
    /\ target = {}

CallDissolvedChainToChain ==
    /\ pc = "start"
    /\ pc' = "flattened"
    /\ \E d \in {Dissolve(proof)} :
         /\ d.err = "none"
         /\ \E order \in Orders(DOMAIN d.dissolved_chain) :
              out' = [err |-> "none",
                      chain |-> FlattenInOrder(d.dissolved_chain, order),
                      order |-> order]
    /\ UNCHANGED <<heap, ref, block_hash, target, k_args, chi_args, K_args,
                   height, proof, old_proof, full_chain, proof_prime, fork>>

SpecFlatten == InitFlatten /\ [][CallDissolvedChainToChain]_vars

-----------------------------------------------------------------------------
(* Dissolve under any command line.  -k, -chi and -K are parsed with       *)
(* type=int and assigned to k_args, chi_args and K_args as they are: zero  *)
(* and negative values reach Dissolve.                                     *)

InitAnyArgs ==
    /\ k_args \in -1..MaxTail
    /\ chi_args \in -1..MaxTail
    /\ K_args \in -1..MaxK
    /\ pc = "start"
    /\ height = 0
    /\ \E n \in 0..MaxBlocks :
         \E levels \in LevelSeqs(n) : proof = BlocksFrom(0, levels, 1, 0)
    /\ old_proof = << >>
    /\ full_chain = << >>
    /\ proof_prime = << >>
    /\ fork = NoFork
    /\ out = None
    /\ heap = << >>
    /\ ref = NoRef
    /\ block_hash = {}
    /\ target = {}

SpecAnyArgs == InitAnyArgs /\ [][CallDissolve]_vars

-----------------------------------------------------------------------------
(* Compare applied to the proofs of two chains that fork.                  *)
(*                                                                         *)
(* fork.C is the shared prefix (genesis first), fork.X and fork.Y the two  *)
(* branches: blocks of the same heights and different identity.            *)

ForkLevels == {0, MaxLevel}

ForkLevelSeqs(n) == [1..n -> ForkLevels]

InitCompare ==
    /\ InitArgs
    /\ pc = "start"
    /\ height = 0
    /\ \E c \in 0..MaxFork :
         \E x \in 0..(MaxFork - c) :
           \E y \in 0..(MaxFork - c - x) :
             \E lc \in ForkLevelSeqs(c), lx \in ForkLevelSeqs(x),
                ly \in ForkLevelSeqs(y), dy \in Diffs :
               fork = [C |-> BlocksFrom(0, <<0>> \o lc, 1, 0),
                       X |-> BlocksFrom(c + 1, lx, 1, 1),
                       Y |-> BlocksFrom(c + 1, ly, dy, 2)]
    /\ proof = << >>
    /\ proof_prime = << >>
    /\ old_proof = << >>
    /\ full_chain = << >>
    /\ out = None
    /\ heap = << >>
    /\ ref = NoRef
    /\ block_hash = {}
    /\ target = {}

\* Each side compresses its own chain.
CompressFork ==
    /\ pc = "start"
    /\ Compress(fork.C \o fork.X).err = "none"
    /\ Compress(fork.C \o fork.Y).err = "none"
    /\ pc' = "ready"
    /\ proof' = Compress(fork.C \o fork.X).chain
    /\ proof_prime' = Compress(fork.C \o fork.Y).chain
    /\ UNCHANGED <<heap, ref, block_hash, target, k_args, chi_args, K_args, height, old_proof, full_chain,
                   fork, out>>

CallCompare ==
    /\ pc = "ready"
    /\ pc' = "compared"
    /\ out' = Compare(proof, proof_prime)
    /\ UNCHANGED <<heap, ref, block_hash, target, k_args, chi_args, K_args, height, proof, old_proof,
                   full_chain, proof_prime, fork>>

\* intersection applied to the dissolved chains of the two proofs.
CallIntersection ==
    /\ pc = "ready"
    /\ Dissolve(proof).err = "none"
    /\ Dissolve(proof_prime).err = "none"
    /\ pc' = "intersected"
    /\ out' = [err |-> "none",
               M |-> intersection(Dissolve(proof).dissolved_chain,
                                  Dissolve(proof_prime).dissolved_chain)]
    /\ UNCHANGED <<heap, ref, block_hash, target, k_args, chi_args, K_args, height, proof, old_proof,
                   full_chain, proof_prime, fork>>

\* Compare applied to the two proofs, then to the same two proofs with the
\* arguments swapped: in swapped, "proof" names proof_prime.
CallCompareBothWays ==
    /\ pc = "ready"
    /\ pc' = "swapped"
    /\ \E compared \in {Compare(proof, proof_prime)} :
       \E swapped \in {Compare(proof_prime, proof)} :
         out' = [err |-> compared.err, winner |-> compared.winner,
                 swapped |-> swapped]
    /\ UNCHANGED <<heap, ref, block_hash, target, k_args, chi_args, K_args, height, proof, old_proof,
                   full_chain, proof_prime, fork>>

NextCompare ==
    CompressFork \/ CallCompare \/ CallIntersection \/ CallCompareBothWays

SpecCompare == InitCompare /\ [][NextCompare]_vars

-----------------------------------------------------------------------------
(* The Compare scenario: two proofs that share the blocks at heights 0..5; *)
(* the first goes on with three level-0 blocks of difficulty 1, the second *)
(* with one level-2 block of difficulty 4.                                 *)

InitScenario ==
    /\ InitArgs
    /\ pc = "ready"
    /\ height = 0
    /\ \E levels \in LevelSeqs(5) :
         fork = [C |-> BlocksFrom(0, <<0>> \o levels, 1, 0),
                 X |-> <<Block(6, 0, 1, 1), Block(7, 0, 1, 1), Block(8, 0, 1, 1)>>,
                 Y |-> <<Block(6, 2, 4, 2)>>]
    /\ proof = fork.C \o fork.X
    /\ proof_prime = fork.C \o fork.Y
    /\ old_proof = << >>
    /\ full_chain = << >>
    /\ out = None
    /\ heap = << >>
    /\ ref = NoRef
    /\ block_hash = {}
    /\ target = {}

SpecScenario == InitScenario /\ [][CallCompare]_vars

-----------------------------------------------------------------------------
(* Claims about Dissolve and Compress, under SpecChain. *)

Range(seq) == { seq[i] : i \in 1..Len(seq) }

StrictlyAscending(chain) ==
    \A i \in 1..(Len(chain) - 1) : chain[i].height < chain[i + 1].height

\* C1: for every chain and every k, chi >= 0, k + chi = 0 included, Dissolve
\* takes the first len(chain) - (k+chi) blocks as the compressible part
\* (none when len(chain) <= k+chi), returns the other blocks as the
\* remainder, and builds the dissolved chain from the compressible part only.
C1_DissolveSplitsAtTail ==
    pc = "dissolved" =>
      LET n == Len(proof)
          cut == IF n <= k_args + chi_args THEN 0 ELSE n - (k_args + chi_args)
      IN  /\ CompressiblePart(proof) = SubSeq(proof, 1, cut)
          /\ out.proof_remainder = SubSeq(proof, cut + 1, n)
          /\ \A l \in DOMAIN out.dissolved_chain :
               Range(out.dissolved_chain[l]) \subseteq Range(SubSeq(proof, 1, cut))

\* The reference definition of a dissolved level below the top level, for
\* the compressible part c: the blocks of level >= mu from the earlier of
\* "2K blocks before the end" and "the anchor", the anchor being the K-th
\* block from the end among the blocks of level >= mu+1.
RefLevelSet(c, mu) == SelectSeq(c, LAMBDA x : x.level >= mu)

RefAnchor(c, mu) ==
    RefLevelSet(c, mu + 1)[Len(RefLevelSet(c, mu + 1)) - K_args + 1]

RefIndexOf(b, levelSet) == (CHOOSE i \in 1..Len(levelSet) : levelSet[i] = b) - 1

RefStartIndex(c, mu) ==
    LET levelSet == RefLevelSet(c, mu)
        byCount == Len(levelSet) - 2 * K_args
        byAnchor == RefIndexOf(RefAnchor(c, mu), levelSet)
    IN  IF byCount < byAnchor THEN byCount ELSE byAnchor

RefDissolvedLevel(c, mu) ==
    SubSeq(RefLevelSet(c, mu), RefStartIndex(c, mu) + 1, Len(RefLevelSet(c, mu)))

\* C2: Dissolve returns what its reference definition gives for the
\* compressible part c it splits off: with fewer than 2K blocks in c, level
\* 0 and {0: c}; otherwise topLevel = getProofLevel(c), every block of c of
\* level >= topLevel at the top level, and RefDissolvedLevel(c, mu) at every
\* level mu below it.
C2_DissolveMatchesReference ==
    pc = "dissolved" =>
      LET c == CompressiblePart(proof)
      IN  /\ out.err = "none"
          /\ IF Len(c) < 2 * K_args
             THEN /\ out.level = 0
                  /\ DOMAIN out.dissolved_chain = {0}
                  /\ out.dissolved_chain[0] = c
             ELSE /\ out.level = get_proof_level(c)
                  /\ DOMAIN out.dissolved_chain = 0..out.level
                  /\ out.dissolved_chain[out.level] = RefLevelSet(c, out.level)
                  /\ \A mu \in 0..(out.level - 1) :
                       out.dissolved_chain[mu] = RefDissolvedLevel(c, mu)

\* Witness of C2: a level below the top level that starts at the anchor,
\* more than 2K blocks before its end, and leaves blocks out.
C2_Witness ==
    /\ pc = "dissolved"
    /\ out.level >= 1
    /\ \E mu \in 0..(out.level - 1) :
         /\ Len(out.dissolved_chain[mu]) > 2 * K_args
         /\ Len(out.dissolved_chain[mu])
              < Len(RefLevelSet(CompressiblePart(proof), mu))

\* C3: Compress(chain) has at most len(chain) blocks, strictly increasing
\* heights, and only blocks of the chain it was given.
C3_CompressIsSubsequence ==
    pc \in {"compressed", "recompressed"} =>
      /\ out.err = "none"
      /\ Len(out.chain) <= Len(proof)
      /\ StrictlyAscending(out.chain)
      /\ Range(out.chain) \subseteq Range(proof)

\* Witness of C3: a call that dropped a block and kept a block at two levels.
C3_Witness ==
    /\ pc = "compressed"
    /\ Len(out.chain) < Len(proof)
    /\ \E l, m \in DOMAIN Dissolve(proof).dissolved_chain :
         /\ l # m
         /\ Range(Dissolve(proof).dissolved_chain[l])
              \cap Range(Dissolve(proof).dissolved_chain[m]) # {}

\* C4: Compress is idempotent: Compress applied to the proof Compress
\* returned gives that proof again, block for block.
C4_CompressIdempotent ==
    pc = "recompressed" => (out.err = "none" /\ out.chain = proof)

\* Witness of C4: the first call dropped blocks, over at least two levels.
C4_Witness ==
    /\ pc = "recompressed"
    /\ Len(proof) < Len(full_chain)
    /\ Dissolve(proof).level >= 1

\* The chain of the end-to-end scenario: heights 0..4, scripted levels
\* [genesis, 0, 1, 0, 2].
EndToEndChain == BlocksFrom(0, <<0, 0, 1, 0, 2>>, 1, 0)

EndToEndCase ==
    /\ proof = EndToEndChain
    /\ k_args = 1
    /\ chi_args = 0
    /\ K_args = 1

\* C11: for the chain of heights 0..4 with levels [genesis, 0, 1, 0, 2] and
\* k = 1, chi = 0, K = 1, Dissolve returns the remainder [height 4], proof
\* level 1 and the dissolved chain {1: [height 0, height 2], 0: [height 2,
\* height 3]}, and Compress returns the blocks of heights [0, 2, 3, 4].
C11_EndToEndScenario ==
    /\ (pc = "dissolved" /\ EndToEndCase) =>
         /\ out.err = "none"
         /\ out.proof_remainder = <<EndToEndChain[5]>>
         /\ out.level = 1
         /\ DOMAIN out.dissolved_chain = {0, 1}
         /\ out.dissolved_chain[1] = <<EndToEndChain[1], EndToEndChain[3]>>
         /\ out.dissolved_chain[0] = <<EndToEndChain[3], EndToEndChain[4]>>
    /\ (pc = "compressed" /\ EndToEndCase) =>
         /\ out.err = "none"
         /\ out.chain = <<EndToEndChain[1], EndToEndChain[3],
                          EndToEndChain[4], EndToEndChain[5]>>

\* Witness of C11: Compress has run on the chain of the scenario and the
\* block of height 1 is gone.
C11_Witness ==
    /\ pc = "compressed"
    /\ EndToEndCase
    /\ Len(out.chain) = 4
    /\ \A i \in 1..Len(out.chain) : out.chain[i].height # 1

\* The number of blocks of level >= mu.
RefCount(blocks, mu) ==
    Cardinality({ i \in 1..Len(blocks) : blocks[i].level >= mu })

\* The levels with at least 2K blocks of that level or higher.
RefQualifying(blocks) ==
    { mu \in 0..LEVEL_INFINITY : RefCount(blocks, mu) >= 2 * K_args }

\* C12: getProofLevel returns the highest level mu such that at least 2K
\* blocks have level >= mu, and 0 if no level qualifies; it returns 0 for
\* the empty sequence and for any sequence of fewer than 2K blocks.
C12_ProofLevelIsHighestQualifying ==
    pc = "levelled" =>
      LET qualifying == RefQualifying(proof)
      IN  /\ out.level \in 0..LEVEL_INFINITY
          /\ qualifying # {} =>
                /\ out.level \in qualifying
                /\ \A mu \in qualifying : mu <= out.level
          /\ qualifying = {} => out.level = 0
          /\ Len(proof) < 2 * K_args => out.level = 0

\* Witness of C12: a level of at least 1 is returned although blocks of a
\* higher level and blocks of a lower level exist.
C12_Witness ==
    /\ pc = "levelled"
    /\ out.level >= 1
    /\ \E i, j \in 1..Len(proof) :
         /\ i # 1
         /\ proof[i].level > out.level
         /\ proof[j].level < out.level

\* C20: in Case B of Dissolve (a compressible part c of at least 2K
\* blocks, K >= 1) every level mu from topLevel down to 1 has at least 2K
\* blocks of c of level >= mu, so that the anchor, the K-th block from the
\* end of the level above, exists at every level below the top, the start
\* index is never negative, and Dissolve ends without an IndexError.
C20_DissolveCaseBWellDefined ==
    (pc = "dissolved" /\ Len(CompressiblePart(proof)) >= 2 * K_args) =>
      LET c == CompressiblePart(proof)
      IN  /\ out.err = "none"
          /\ \A mu \in 1..out.level : Len(RefLevelSet(c, mu)) >= 2 * K_args
          /\ \A mu \in 0..(out.level - 1) :
               /\ Len(RefLevelSet(c, mu + 1)) >= K_args
               /\ Len(RefLevelSet(c, mu)) - 2 * K_args >= 0
               /\ RefStartIndex(c, mu) >= 0
               /\ RefStartIndex(c, mu) < Len(RefLevelSet(c, mu))

\* Witness of C20: Case B with K = 2 and two levels below the top level.
C20_Witness ==
    /\ pc = "dissolved"
    /\ K_args >= 2
    /\ Len(CompressiblePart(proof)) >= 2 * K_args
    /\ out.err = "none"
    /\ out.level >= 2

\* C14: Dissolve called with K <= 0 or with a negative k or chi is
\* rejected with a configuration error before any computation on the
\* chain: it produces no dissolved chain from such parameters.
C14_InvalidParametersRejected ==
    (pc = "dissolved" /\ (K_args <= 0 \/ k_args < 0 \/ chi_args < 0)) =>
      out.err = "ConfigurationError"

-----------------------------------------------------------------------------
(* Claims about the driver loop (Spec).                                    *)

\* C5: in the driver loop, whatever k >= 0, chi >= 0, K >= 1 and the blocks
\* appended, Compare(old_proof, proof) never selects the previously
\* retained proof, and "Previous proof selected" is never reached.
C5_PreviousProofNeverSelected ==
    /\ pc # "fatal"
    /\ out.winner # "proof"

\* C13: after any sequence of appends, each followed by Compress and, in
\* the driver, Compare, the running proof ends with the most recent
\* min(n, k + chi) blocks of the full chain, all of them, in chain order.
C13_RemainderKeptInFull ==
    LET n == Len(full_chain)
        t == Min(n, k_args + chi_args)
    IN  /\ Len(proof) >= t
        /\ \A i \in 1..t : proof[Len(proof) - t + i] = full_chain[n - t + i]

\* Witness of C13: a remainder of two blocks behind a proof that lost
\* blocks of the chain.
C13_Witness ==
    /\ pc = "loop"
    /\ k_args + chi_args >= 2
    /\ Len(full_chain) > k_args + chi_args
    /\ Len(proof) < Len(full_chain)

\* C16: in every chain fed to the core the block at height 0 has level
\* 256 whatever level was drawn for it, and no block at another height
\* has its level overridden.
C16_GenesisOverride ==
    /\ \A i \in 1..Len(full_chain) :
         /\ full_chain[i].height = i - 1
         /\ full_chain[i].height = 0 => full_chain[i].level = LEVEL_INFINITY
         /\ full_chain[i].height # 0 => full_chain[i].level \in Levels
    /\ \A i \in 1..Len(proof) :
         proof[i].level = LEVEL_INFINITY <=> proof[i].height = 0

\* Witness of C16: a chain with genesis and blocks of the lowest and of
\* the highest level after it.
C16_Witness ==
    /\ Len(full_chain) >= 3
    /\ full_chain[1].level = LEVEL_INFINITY
    /\ \E i, j \in 2..Len(full_chain) :
         /\ full_chain[i].level = 0
         /\ full_chain[j].level = MaxLevel

-----------------------------------------------------------------------------
(* Claims about Compare (SpecCompare, SpecScenario).                       *)

\* The dissolved chains and the intersection Compare works with.
DissolvedA == Dissolve(proof)

DissolvedB == Dissolve(proof_prime)

CommonBlocks == intersection(DissolvedA.dissolved_chain,
                             DissolvedB.dissolved_chain)

\* The blocks of a list from the height of b on.
FromHeight(lst, b) == SelectSeq(lst, LAMBDA x : x.height >= b.height)

\* C6: for proofs compressed from C+X and C+Y, which share C and no block
\* after it, Compare(A, B) returns B exactly when the total difficulty of
\* Y is strictly greater than that of X, whatever C is.
C6_ForkChoiceOnPostForkWork ==
    pc = "compared" =>
      /\ out.err = "none"
      /\ out.winner = "proof_prime" <=> chain_score(fork.Y) > chain_score(fork.X)
      /\ out.winner = "proof" <=> chain_score(fork.Y) <= chain_score(fork.X)

\* C7: Compare is total: for two proofs with ascending unique heights it
\* ends without an error and returns one of its two arguments, also when
\* the proofs hold different blocks at the same height.
C7_CompareIsTotal ==
    pc = "compared" =>
      /\ out.err = "none"
      /\ out.winner \in {"proof", "proof_prime"}

\* C8: when the intersection M is not empty, with mu the lowest level of M
\* and b the last block of M[mu], the score of a side is the chain score
\* of its level-mu list from b on plus the chain score of its remainder;
\* Compare returns B if and only if scoreB > scoreA, and A on a tie.
C8_CompareByScoreRule ==
    (pc = "compared" /\ DOMAIN CommonBlocks # {}) =>
      LET mu == MinKey(DOMAIN CommonBlocks)
          b == CommonBlocks[mu][Len(CommonBlocks[mu])]
          scoreA == chain_score(FromHeight(DissolvedA.dissolved_chain[mu], b))
                      + chain_score(DissolvedA.proof_remainder)
          scoreB == chain_score(FromHeight(DissolvedB.dissolved_chain[mu], b))
                      + chain_score(DissolvedB.proof_remainder)
      IN  /\ out.err = "none"
          /\ out.winner = "proof_prime" <=> scoreB > scoreA
          /\ out.winner = "proof" <=> scoreB <= scoreA

\* No level of both dissolved chains has a height in both of its lists.
NoCommonBlock ==
    \A l \in (DOMAIN DissolvedA.dissolved_chain)
               \cap (DOMAIN DissolvedB.dissolved_chain) :
      HeightsOf(DissolvedA.dissolved_chain[l])
        \cap HeightsOf(DissolvedB.dissolved_chain[l]) = {}

ScenarioParameters ==
    /\ DOMAIN CommonBlocks # {}
    /\ MinKey(DOMAIN CommonBlocks) = 0
    /\ CommonBlocks[0][Len(CommonBlocks[0])].height = 5

\* C10: A and B share the blocks at heights 0..5; A goes on with three
\* level-0 blocks of difficulty 1, B with one level-2 block of difficulty
\* 4.  With level 0 the lowest common level and height 5 the last common
\* block, Compare(A, B) returns B.
C10_ScenarioReturnsB ==
    (pc = "compared" /\ ScenarioParameters) =>
      /\ out.err = "none"
      /\ out.winner = "proof_prime"

\* Witness of C10: the scenario with its parameters, Compare has returned,
\* and A has more blocks after height 5 than B.
C10_Witness ==
    /\ pc = "compared"
    /\ ScenarioParameters
    /\ fork.C[Len(fork.C)].height = 5
    /\ Len(fork.X) = 3
    /\ Len(fork.Y) = 1
    /\ out.winner = "proof_prime"

LargestLevel(h, t) ==
    CHOOSE l \in 0..(Top(t) + 1) :
        /\ LessOrEqual(ShiftLeft(h, l), t)
        /\ ~LessOrEqual(ShiftLeft(h, l + 1), t)

\* C17: the level of a block is the largest l with hash * 2^l <= target
\* (0 for hash = target, 1 for target / 2, 3 for target / 8), and the
\* synthetic block built with hash = target >> l has level l.
C17_LevelDerivation ==
    /\ pc = "block" =>
          /\ out.err = "none"
          /\ out.level = LargestLevel(block_hash, target)
    /\ pc = "synthetic" =>
          /\ out.err = "none"
          /\ out.level = out.scripted

\* C21: in every dissolved chain Dissolve returns, for every level mu below
\* the top level the anchor, the K-th block from the end of the
\* compressible blocks of level >= mu+1, is in the list of level mu and in
\* the list of level mu+1: two consecutive levels share a block.
C21_AnchorOverlap ==
    pc = "dissolved" =>
      /\ out.err = "none"
      /\ \A mu \in 0..(out.level - 1) :
           LET anchor == RefAnchor(CompressiblePart(proof), mu)
           IN  /\ anchor \in Range(out.dissolved_chain[mu])
               /\ anchor \in Range(out.dissolved_chain[mu + 1])

\* Witness of C21: a level below the top level whose anchor lies more than
\* 2K blocks before the end of the level, and a level that left blocks out.
C21_Witness ==
    /\ pc = "dissolved"
    /\ out.level >= 1
    /\ \E mu \in 0..(out.level - 1) :
         LET levelSet == RefLevelSet(CompressiblePart(proof), mu)
         IN  /\ RefIndexOf(RefAnchor(CompressiblePart(proof), mu), levelSet)
                  < Len(levelSet) - 2 * K_args
             /\ Len(out.dissolved_chain[mu]) < Len(levelSet)

\* C22: the top level is never cut: dissolved_chain[level] holds every
\* block of the compressible part whose level is >= the proof level, 2K of
\* them or more, and Compress(chain) holds every one of these blocks.
C22_TopLevelKeptWhole ==
    /\ pc = "dissolved" =>
         /\ out.err = "none"
         /\ out.dissolved_chain[out.level]
              = RefLevelSet(CompressiblePart(proof), out.level)
    /\ pc = "compressed" =>
         /\ out.err = "none"
         /\ Range(RefLevelSet(CompressiblePart(proof), Dissolve(proof).level))
              \subseteq Range(out.chain)

\* Witness of C22: a top level above 0 with more than 2K blocks, in a call
\* of Compress that dropped a block.
C22_Witness ==
    /\ pc = "compressed"
    /\ Dissolve(proof).level >= 1
    /\ Len(RefLevelSet(CompressiblePart(proof), Dissolve(proof).level))
         > 2 * K_args
    /\ Len(out.chain) < Len(proof)

\* The shape of a dissolved chain: the keys are 0..level, and the list at
\* each key is in ascending height order and holds blocks of that level
\* or above only.
DissolvedChainShape(d) ==
    /\ DOMAIN d.dissolved_chain = 0..d.level
    /\ \A mu \in DOMAIN d.dissolved_chain :
         /\ StrictlyAscending(d.dissolved_chain[mu])
         /\ \A i \in 1..Len(d.dissolved_chain[mu]) :
              d.dissolved_chain[mu][i].level >= mu

C24_FatalOnPreviousProof ==
    [][ /\ pc # "fatal"
        /\ (full_chain' # full_chain /\ pc' # "crashed"
              /\ proof' = old_proof) =>
             /\ pc' = "fatal"
             /\ old_proof' = old_proof
             /\ height' = height
        /\ pc' = "fatal" => proof' = old_proof ]_vars

\* Witness of C24: the driver ended with the fatal condition after Compare
\* returned the retained proof.
C24_Witness ==
    /\ pc = "fatal"
    /\ proof = old_proof
    /\ out.winner = "proof"
    /\ Len(full_chain) = height + 1

\* C25: flattening a dissolved chain gives the same sequence of blocks in
\* whatever order its levels are iterated: the blocks of all levels, each
\* height once, in ascending height order.
C25_FlattenOrderIndependent ==
    pc = "flattened" =>
      LET dc == Dissolve(proof).dissolved_chain
      IN  /\ out.chain = dissolved_chain_to_chain(dc)
          /\ StrictlyAscending(out.chain)
          /\ Range(out.chain) = UNION { Range(dc[mu]) : mu \in DOMAIN dc }

\* Witness of C25: three levels iterated from the lowest up, with a block
\* held at two levels and a block of the chain left out.
C25_Witness ==
    /\ pc = "flattened"
    /\ Len(out.order) >= 3
    /\ out.order[1] = 0
    /\ out.order # DescendingKeys(Range(out.order))
    /\ Len(out.chain) < Len(CompressiblePart(proof))

\* C26: incremental compression equals batch compression: the proof got by
\* appending the blocks of a chain one by one, compressing after each, is
\* Compress of the whole chain, for any levels and k, chi >= 0, K >= 1.
C26_IncrementalEqualsBatch ==
    pc \in {"loop", "done"} =>
      /\ Compress(full_chain).err = "none"
      /\ proof = Compress(full_chain).chain

\* Witness of C26: the last block made the proof shorter than it was, and
\* Dissolve of the chain has at least two levels.
C26_Witness ==
    /\ pc = "loop"
    /\ Len(full_chain) >= 2
    /\ Len(proof)
         < Len(Compress(SubSeq(full_chain, 1, Len(full_chain) - 1)).chain)
    /\ Dissolve(full_chain).level >= 1

\* C27: dissolving a compressed proof loses nothing: Dissolve(Compress(chain))
\* has the proof level, the list of every level and the remainder that
\* Dissolve(chain) has.
C27_DissolveOfCompressed ==
    pc = "compressed" =>
      /\ out.err = "none"
      /\ Dissolve(out.chain).err = "none"
      /\ Dissolve(out.chain).level = Dissolve(proof).level
      /\ Dissolve(out.chain).dissolved_chain = Dissolve(proof).dissolved_chain
      /\ Dissolve(out.chain).proof_remainder = Dissolve(proof).proof_remainder

\* Witness of C27: Compress dropped blocks of a chain whose proof level is
\* above 0 and whose remainder is not empty.
C27_Witness ==
    /\ pc = "compressed"
    /\ out.err = "none"
    /\ Len(out.chain) < Len(proof)
    /\ Dissolve(proof).level >= 1
    /\ Dissolve(proof).proof_remainder # << >>

\* C28: the genesis block (height 0, level 256) is in the running proof
\* after every iteration of the loop, whatever blocks were appended and
\* whatever k, chi and K are.
C28_GenesisKept ==
    full_chain # << >> =>
      \E i \in 1..Len(proof) :
        proof[i].height = 0 /\ proof[i].level = LEVEL_INFINITY

\* Witness of C28: genesis is in the compressible part of the chain, the
\* proof level is above 0 and the proof has dropped blocks of the chain.
C28_Witness ==
    /\ pc = "loop"
    /\ CompressiblePart(full_chain) # << >>
    /\ Dissolve(full_chain).level >= 1
    /\ Len(proof) < Len(full_chain)

\* C29: as blocks are appended and the proof is recompressed, the proof
\* level Dissolve returns on the running proof never decreases from one
\* iteration to the next.
C29_ProofLevelNeverDecreases ==
    [][Dissolve(proof').level >= Dissolve(proof).level]_vars

\* Witness of C29: the last iteration raised the proof level of the running
\* proof.
C29_Witness ==
    /\ pc = "loop"
    /\ Len(full_chain) >= 2
    /\ Dissolve(proof).level
         > Dissolve(Compress(SubSeq(full_chain, 1,
                                    Len(full_chain) - 1)).chain).level

\* C30: Compare is consistent under swapping its arguments when the
\* challenger wins: if Compare(A, B) returns B, then Compare(B, A) returns
\* B as well.
C30_SwapConsistent ==
    (pc = "swapped" /\ out.err = "none" /\ out.winner = "proof_prime") =>
      (out.swapped.err = "none" /\ out.swapped.winner = "proof")

\* Witness of C30: the second proof won on the scores from the last common
\* block of a level the two proofs share, the chains having forked.
C30_Witness ==
    /\ pc = "swapped"
    /\ out.err = "none"
    /\ out.winner = "proof_prime"
    /\ fork.X # << >>
    /\ fork.Y # << >>
    /\ DOMAIN intersection(Dissolve(proof).dissolved_chain,
                           Dissolve(proof_prime).dissolved_chain) # {}

=============================================================================
